---- MODULE Spec2Model ----
(***************************************************************************)
(* Model of the linkification engine of linkify.py: the title classifier   *)
(* (separate_acronyms_and_classic_titles), the segmenter                   *)
(* (split_text_for_linkification), the linker (linkify_text) and the       *)
(* per-document loop of main.                                              *)
(*                                                                         *)
(* A Python str is a sequence of characters; a character is a one-element  *)
(* string, except E_ACUTE, CJK and BACKTICK.                               *)
(***************************************************************************)
EXTENDS Integers, Sequences, FiniteSets, TLC

VARIABLES text, note_titles, file_title, pc,
          first, second, classified,
          sections, idx, outs, complete_linked_text, nb_new_backlinks

vars == <<text, note_titles, file_title, pc, first, second, classified,
          sections, idx, outs, complete_linked_text, nb_new_backlinks>>

\* ------------------------------------------------------------- characters

E_ACUTE == "U+00E9"
CJK == "U+65E5"

UpperLetters == {"M", "L", "S", "E", "X"}
LowerLetters == {"m", "l", "s", "e", "x"}

\* str.lower() / str.casefold() on one character
Lower(c) ==
  CASE c = "M" -> "m" [] c = "L" -> "l" [] c = "S" -> "s"
    [] c = "E" -> "e" [] c = "X" -> "x" [] OTHER -> c

\* str.upper() on one character
Upper(c) ==
  CASE c = "m" -> "M" [] c = "l" -> "L" [] c = "s" -> "S"
    [] c = "e" -> "E" [] c = "x" -> "X" [] OTHER -> c

\* the regex class \w (str patterns are Unicode-aware)
IsWord(c) == c \in UpperLetters \cup LowerLetters \cup {"_", E_ACUTE, CJK}

LowerStr(s) == [k \in 1..Len(s) |-> Lower(s[k])]

\* s[:-1]
Front(s) == SubSeq(s, 1, Len(s) - 1)

\* lit occurs in t at index i (re.IGNORECASE when ic)
LitAt(t, i, lit, ic) ==
  /\ i >= 1
  /\ i + Len(lit) - 1 <= Len(t)
  /\ \A k \in 1..Len(lit) :
       IF ic THEN Lower(t[i + k - 1]) = Lower(lit[k]) ELSE t[i + k - 1] = lit[k]

\* lit in t
Contains(t, lit) == \E i \in 1..Len(t) : LitAt(t, i, lit, FALSE)

\* t.startswith(lit)
StartsWith(t, lit) == LitAt(t, 1, lit, FALSE)

RECURSIVE Flatten(_)
Flatten(ss) == IF ss = <<>> THEN <<>> ELSE Head(ss) \o Flatten(Tail(ss))

ToSet(s) == {s[k] : k \in 1..Len(s)}

\* ------------------------------------------------- simplified_string etc.

\* unicodedata.normalize("NFKD", c).encode("ASCII", "ignore") of one
\* character: an accented letter keeps its base letter, a character with no
\* ASCII base is dropped
AsciiOf(c) ==
  IF c = E_ACUTE THEN <<"e">> ELSE IF c = CJK THEN <<>> ELSE <<c>>

RECURSIVE remove_accents(_)
remove_accents(s) ==
  IF s = <<>> THEN <<>> ELSE AsciiOf(Head(s)) \o remove_accents(Tail(s))

\* s.casefold().replace(" ", "_").replace("-", "_")
FoldAndJoin(a) ==
  [k \in 1..Len(a) |-> IF a[k] \in {" ", "-"} THEN "_" ELSE Lower(a[k])]

simplified_string(s) == FoldAndJoin(remove_accents(s))

\* str.split("_"): always at least one word, words may be empty
RECURSIVE SplitWords(_, _)
SplitWords(s, cur) ==
  IF s = <<>> THEN <<cur>>
  ELSE IF Head(s) = "_" THEN <<cur>> \o SplitWords(Tail(s), <<>>)
  ELSE SplitWords(Tail(s), Append(cur, Head(s)))

\* "".join([word[0].upper() for word in words]); word[0] of an empty word
\* raises IndexError
Initials(words) ==
  [raised |-> \E k \in 1..Len(words) : words[k] = <<>>,
   acronym |-> [k \in 1..Len(words) |->
                  IF words[k] = <<>> THEN "?" ELSE Upper(words[k][1])]]

potential_acronym(title) == Initials(SplitWords(simplified_string(title), <<>>))

\* potential_acronym not in acronyms
Unclaimed(acronyms, a) == \A j \in 1..Len(acronyms) : acronyms[j].acronym # a

\* the loop of separate_acronyms_and_classic_titles over titles[k..]; the
\* dict acronyms is a sequence of [acronym, title] in insertion order
RECURSIVE ClassifyFrom(_, _, _, _)
RECURSIVE ClassifyStep(_, _, _, _, _)
ClassifyFrom(titles, k, acronyms, classic_titles) ==
  IF k > Len(titles)
  THEN [raised |-> FALSE, acronyms |-> acronyms, classic_titles |-> classic_titles]
  ELSE ClassifyStep(titles, k, acronyms, Append(classic_titles, titles[k]),
                    potential_acronym(titles[k]))

\* the body of the loop for titles[k], whose candidate acronym is p
ClassifyStep(titles, k, acronyms, classic_titles, p) ==
  IF p.raised
  THEN [raised |-> TRUE, acronyms |-> acronyms, classic_titles |-> classic_titles]
  ELSE ClassifyFrom(titles, k + 1,
         IF Len(p.acronym) > 1 /\ Unclaimed(acronyms, p.acronym)
         THEN Append(acronyms, [acronym |-> p.acronym, title |-> titles[k]])
         ELSE acronyms,
         classic_titles)

separate_acronyms_and_classic_titles(titles) ==
  ClassifyFrom(titles, 1, <<>>, <<>>)

\* ------------------------------------------------------------ linkify_text

\* \b at index i: exactly one of t[i-1], t[i] is a word character
WordAt(t, i) == i >= 1 /\ i <= Len(t) /\ IsWord(t[i])
WordBoundary(t, i) == WordAt(t, i - 1) # WordAt(t, i)

\* the greedy choices of s?(\]\])?s? in the order the backtracking tries them
TailChoices ==
  << <<1, 1, 1>>, <<1, 1, 0>>, <<1, 0, 1>>, <<1, 0, 0>>,
     <<0, 1, 1>>, <<0, 1, 0>>, <<0, 0, 1>>, <<0, 0, 0>> >>

\* s at index q (S too under re.IGNORECASE)
IsS(t, q, ic) == q <= Len(t) /\ (t[q] = "s" \/ (ic /\ t[q] = "S"))

\* one choice of decoration_end = s?(\]\])?s?(?![\w]) from index p: the index
\* after the match, 0 when that choice does not match
TailTry(t, p, ic, ch) ==
  IF /\ ch[1] = 1 => IsS(t, p, ic)
     /\ ch[2] = 1 => LitAt(t, p + ch[1], <<"]", "]">>, FALSE)
     /\ ch[3] = 1 => IsS(t, p + ch[1] + 2 * ch[2], ic)
     /\ ~WordAt(t, p + ch[1] + 2 * ch[2] + ch[3])
  THEN p + ch[1] + 2 * ch[2] + ch[3]
  ELSE 0

MinOf(S) == CHOOSE k \in S : \A j \in S : k <= j
MaxOf(S) == CHOOSE k \in S : \A j \in S : j <= k

TailFirst(t, p, ic, good) ==
  IF good = {} THEN 0 ELSE TailTry(t, p, ic, TailChoices[MinOf(good)])

\* decoration_end from index p: the first choice that matches
TailEnd(t, p, ic) ==
  TailFirst(t, p, ic,
            {k \in 1..Len(TailChoices) : TailTry(t, p, ic, TailChoices[k]) # 0})

\* the first alternative that matches
FirstNonZero(a, b) == IF a # 0 THEN a ELSE b

\* re.match of decoration_start + lit + decoration_end at index i, with
\* decoration_start = (\b|\[\[): the index after the match, 0 when none
MatchAt(t, i, lit, ic) ==
  FirstNonZero(
    IF WordBoundary(t, i) /\ LitAt(t, i, lit, ic)
    THEN TailEnd(t, i + Len(lit), ic) ELSE 0,
    IF LitAt(t, i, <<"[", "[">>, FALSE) /\ LitAt(t, i + 2, lit, ic)
    THEN TailEnd(t, i + 2 + Len(lit), ic) ELSE 0)

\* the closure replacement(match, title): the text put in place of the match,
\* n the increment of nb_new_links, targets the target of the link made
replacement(original_text, title, sorted_titles) ==
  IF Contains(original_text, <<"[", "[">>) \/ Contains(original_text, <<"]", "]">>)
  THEN [text |-> original_text, n |-> 0, targets |-> {}]
  ELSE IF /\ Lower(original_text[Len(original_text)]) = "s"
          /\ Front(original_text) \in ToSet(sorted_titles)
  THEN [text |-> <<"[", "[">> \o Front(original_text) \o <<"]", "]", "s">>,
        n |-> 1, targets |-> {Front(original_text)}]
  ELSE IF title # <<>> /\ title # original_text
  THEN [text |-> <<"[", "[">> \o title \o <<"|">> \o original_text \o <<"]", "]">>,
        n |-> 1, targets |-> {title}]
  ELSE [text |-> <<"[", "[">> \o original_text \o <<"]", "]">>,
        n |-> 1, targets |-> {original_text}]

\* a replaced match m followed by the rest r of the substituted text
Joined(m, r) ==
  [text |-> m.text \o r.text, n |-> m.n + r.n, targets |-> m.targets \cup r.targets]

Kept(c) == [text |-> <<c>>, n |-> 0, targets |-> {}]

\* re.sub(pattern, replacement, t, count, flags) scanning from index pos;
\* count = 0 replaces every match, done counts the matches replaced so far
RECURSIVE ReSubFrom(_, _, _, _, _, _, _, _)
RECURSIVE ReSubStep(_, _, _, _, _, _, _, _, _)
ReSubFrom(t, pos, lit, title, ic, count, done, sorted_titles) ==
  IF pos > Len(t) THEN [text |-> <<>>, n |-> 0, targets |-> {}]
  ELSE ReSubStep(t, pos, lit, title, ic, count, done, sorted_titles,
                 IF count # 0 /\ done >= count THEN 0 ELSE MatchAt(t, pos, lit, ic))

\* e is the index after the match at pos, 0 when nothing matches there
ReSubStep(t, pos, lit, title, ic, count, done, sorted_titles, e) ==
  IF e = 0
  THEN Joined(Kept(t[pos]),
              ReSubFrom(t, pos + 1, lit, title, ic, count, done, sorted_titles))
  ELSE Joined(replacement(SubSeq(t, pos, e - 1), title, sorted_titles),
              ReSubFrom(t, e, lit, title, ic, count, done + 1, sorted_titles))

re_sub(t, lit, title, ic, count, sorted_titles) ==
  ReSubFrom(t, 1, lit, title, ic, count, 0, sorted_titles)

\* h put after the titles of rest that are longer than it
InsertByLen(h, rest) ==
  SelectSeq(rest, LAMBDA x : Len(x) > Len(h)) \o <<h>>
    \o SelectSeq(rest, LAMBDA x : Len(x) <= Len(h))

\* sorted(classic_titles, key=len, reverse=True): stable, so titles of one
\* length keep their order
RECURSIVE SortByLenDesc(_)
SortByLenDesc(s) ==
  IF s = <<>> THEN <<>> ELSE InsertByLen(Head(s), SortByLenDesc(Tail(s)))

\* the keys of the dict pattern_collection: each title once, at its first place
RECURSIVE DictKeys(_)
DictKeys(s) ==
  IF s = <<>> THEN <<>>
  ELSE <<Head(s)>> \o DictKeys(SelectSeq(Tail(s), LAMBDA x : x # Head(s)))

\* the classic pass: flags=re.IGNORECASE, every match
ClassicIgnoreCase == TRUE
ClassicCount == 0
\* the acronym pass hands re.IGNORECASE (== 2) to re.sub as its fourth
\* positional parameter, which is count; flags stays 0
AcronymIgnoreCase == FALSE
AcronymCount == 2

\* linked_text = re.sub(...) and the links it added to nb_new_links
Accumulate(acc, r) ==
  [text |-> r.text, n |-> acc.n + r.n, targets |-> acc.targets \cup r.targets]

\* the loop over pattern_collection.items(), on the running linked_text
RECURSIVE ClassicPasses(_, _, _, _)
ClassicPasses(acc, keys, k, sorted_titles) ==
  IF k > Len(keys) THEN acc
  ELSE ClassicPasses(
         Accumulate(acc, re_sub(acc.text, keys[k], keys[k],
                                ClassicIgnoreCase, ClassicCount, sorted_titles)),
         keys, k + 1, sorted_titles)

\* the loop over zip(acronyms.keys(), patterns, acronyms.values())
RECURSIVE AcronymPasses(_, _, _, _)
AcronymPasses(acc, acronyms, k, sorted_titles) ==
  IF k > Len(acronyms) THEN acc
  ELSE AcronymPasses(
         Accumulate(acc, re_sub(acc.text, acronyms[k].acronym, acronyms[k].title,
                                AcronymIgnoreCase, AcronymCount, sorted_titles)),
         acronyms, k + 1, sorted_titles)

\* FilterFileTitle without the filter
FilterFileTitle_Keep(titles, ft) == titles

\* note_titles without file_title, when file_title is truthy (None is <<>>)
FilterFileTitle(titles, ft) ==
  IF ft # <<>> THEN SelectSeq(titles, LAMBDA x : x # ft) ELSE titles

\* return linked_text (line 150): the caller gets a bare str
StrResult(r) ==
  [kind |-> "str", text |-> r.text, nb |-> 0, made |-> r.n, targets |-> r.targets]

\* return linked_text, nb_new_links (line 167)
TupleResult(r) ==
  [kind |-> "tuple", text |-> r.text, nb |-> r.n, made |-> r.n,
   targets |-> r.targets]

\* the IndexError of the classifier leaves linkify_text
RaiseResult(t) ==
  [kind |-> "raise", text |-> t, nb |-> 0, made |-> 0, targets |-> {}]

\* from the end of the classic passes to the return
LinkifyReturn(c, classic, sorted_titles) ==
  IF Len(c.acronyms) = 0 THEN StrResult(classic)
  ELSE TupleResult(AcronymPasses(classic, c.acronyms, 1, sorted_titles))

\* from sorted_titles to the end of the classic passes
LinkifySorted(t, c, sorted_titles) ==
  LinkifyReturn(c,
    ClassicPasses([text |-> t, n |-> 0, targets |-> {}],
                  DictKeys(sorted_titles), 1, sorted_titles),
    sorted_titles)

\* after acronyms, classic_titles = separate_acronyms_and_classic_titles(...)
LinkifyClassified(t, c) ==
  IF c.raised THEN RaiseResult(t)
  ELSE LinkifySorted(t, c, SortByLenDesc(c.classic_titles))

\* linkify_text(text, note_titles, file_title).  kind is "raise" (the
\* IndexError of the classifier), "str" or "tuple"; text is the rewritten
\* text, nb the count of the pair; made and targets record the links created,
\* whatever was returned.
linkify_text(t, titles, ft) ==
  LinkifyClassified(t, separate_acronyms_and_classic_titles(FilterFileTitle(titles, ft)))

\* ---------------------------------------------- split_text_for_linkification

\* the backtick, which a TLA+ string cannot hold
BACKTICK == "U+0060"
FENCE == <<BACKTICK, BACKTICK, BACKTICK>>

\* the index after the closer of width w found at j; 0 when none was found
AfterCloser(j, w) == IF j = 0 THEN 0 ELSE j + w

MinOr0(S) == IF S = {} THEN 0 ELSE MinOf(S)
MaxOr0(S) == IF S = {} THEN 0 ELSE MaxOf(S)

\* the least index j >= from at which lit occurs in t, 0 when there is none
\* (a non-greedy .*? up to lit, re.DOTALL)
NextAt(t, from, lit) == MinOr0({j \in from..Len(t) : LitAt(t, j, lit, FALSE)})

\* (?<!`) at index i
NotAfterBacktick(t, i) == i = 1 \/ t[i - 1] # BACKTICK

\* ^ and $ of re.MULTILINE at index i
LineStart(t, i) == i = 1 \/ t[i - 1] = "\n"
LineEnd(t, i) == i = Len(t) + 1 \/ t[i] = "\n"

\* ```.*?``` at index i
CodeEnd(t, i) ==
  IF LitAt(t, i, FENCE, FALSE) THEN AfterCloser(NextAt(t, i + 3, FENCE), 3) ELSE 0

\* (?<!`)\$\$.*?\$\$ at index i
BlockMathEnd(t, i) ==
  IF NotAfterBacktick(t, i) /\ LitAt(t, i, <<"$", "$">>, FALSE)
  THEN AfterCloser(NextAt(t, i + 2, <<"$", "$">>), 2) ELSE 0

\* (?<!`)\$.*?\$ at index i
InlineMathEnd(t, i) ==
  IF NotAfterBacktick(t, i) /\ LitAt(t, i, <<"$">>, FALSE)
  THEN AfterCloser(NextAt(t, i + 1, <<"$">>), 1) ELSE 0

\* ^\|.*\|$ at index i: .* is greedy and, under re.DOTALL, runs over line
\* ends, up to the last | that ends a line
RowEnd(t, i) ==
  IF LineStart(t, i) /\ LitAt(t, i, <<"|">>, FALSE)
  THEN AfterCloser(MaxOr0({j \in (i + 1)..Len(t) : t[j] = "|" /\ LineEnd(t, j + 1)}), 1)
  ELSE 0

\* the alternation of the pattern at index i, in its order: the index after
\* the match, 0 when no alternative matches
SplitMatchAt(t, i) ==
  FirstNonZero(CodeEnd(t, i),
    FirstNonZero(BlockMathEnd(t, i),
      FirstNonZero(InlineMathEnd(t, i), RowEnd(t, i))))

\* re.split with the one capturing group: the text before each match, the
\* match, ..., the text after the last match.  from is where the current
\* unmatched text starts, pos the index the scan is at.
RECURSIVE ReSplitFrom(_, _, _)
RECURSIVE ReSplitStep(_, _, _, _)
ReSplitFrom(t, from, pos) ==
  IF pos > Len(t) THEN <<SubSeq(t, from, Len(t))>>
  ELSE ReSplitStep(t, from, pos, SplitMatchAt(t, pos))

\* e is the index after the match at pos, 0 when nothing matches there
ReSplitStep(t, from, pos, e) ==
  IF e = 0 THEN ReSplitFrom(t, from, pos + 1)
  ELSE <<SubSeq(t, from, pos - 1), SubSeq(t, pos, e - 1)>> \o ReSplitFrom(t, e, e)

re_split(t) == ReSplitFrom(t, 1, 1)

\* SectionLinkifiable without the test for $
SectionLinkifiable_NoMath(section) ==
  ~(StartsWith(section, FENCE) \/ StartsWith(section, <<"|">>))

\* linkifiable = not (section.startswith("```") or section.startswith("$")
\*                    or section.startswith("|"))
SectionLinkifiable(section) ==
  ~(\/ StartsWith(section, FENCE)
    \/ StartsWith(section, <<"$">>)
    \/ StartsWith(section, <<"|">>))

\* the loop that builds linkifiable_sections
TagSections(split_text) ==
  [k \in 1..Len(split_text) |->
     [text |-> split_text[k], linkifiable |-> SectionLinkifiable(split_text[k])]]

split_text_for_linkification(t) == TagSections(re_split(t))

\* ------------------------------------------------------------------ inputs

T_L == <<"L">>
T_ML == <<"M", "L">>
T_M_L == <<"M", " ", "L">>
T_m_l == <<"m", " ", "l">>
T_M__L == <<"M", " ", " ", "L">>
T_M_dash_L == <<"M", " ", "-", " ", "L">>
T_CJK == <<CJK>>
T_Ecole == <<E_ACUTE, "l">>
T_L_M == <<"L", " ", "M">>
T_M_L_link == <<"[", "[">> \o T_M_L \o <<"|">> \o T_m_l \o <<"]", "]">>

\* None for file_title
None == <<>>

\* all sequences of at most n elements of S
SeqsUpTo(S, n) == UNION {[1..k -> S] : k \in 0..n}

\* pieces of the texts handed to linkify_text
LinkPieces == {T_M_L, T_m_l, T_ML, <<"m", "l">>, T_L, <<"s">>, <<" ">>, T_M_L_link}
MaxPieces == 3
LinkTexts == {Flatten(ps) : ps \in SeqsUpTo(LinkPieces, MaxPieces)}

LinkTitleLists ==
  { <<>>, <<T_L>>, <<T_M_L>>, <<T_L, T_M_L>>, <<T_M_L, T_L>>, <<T_ML, T_M_L>>,
    <<T_M_L, T_M__L>> }
LinkFileTitles == {None, T_L, T_ML}

\* titles handed to the classifier
ClassifyTitles == {T_L, T_ML, T_M_L, T_L_M, T_M__L, T_M_dash_L, T_CJK, T_Ecole}
MaxTitles == 2

NoResult == [kind |-> "none", text |-> <<>>, nb |-> 0, made |-> 0, targets |-> {}]
NoClassified == [raised |-> FALSE, acronyms |-> <<>>, classic_titles |-> <<>>]

Idle ==
  /\ first = NoResult
  /\ second = NoResult
  /\ classified = NoClassified
  /\ sections = <<>>
  /\ idx = 0
  /\ outs = <<>>
  /\ complete_linked_text = <<>>
  /\ nb_new_backlinks = 0

\* ------------------------------------------- linkify_text called directly

InitLink ==
  /\ text \in LinkTexts
  /\ note_titles \in LinkTitleLists
  /\ file_title \in LinkFileTitles
  /\ pc = "call"
  /\ Idle

\* linked_text, nb = linkify_text(text, note_titles, file_title), as in the
\* test mode of main
FirstCall ==
  /\ pc = "call"
  /\ first' = linkify_text(text, note_titles, file_title)
  /\ pc' = IF first'.kind = "raise" THEN "raised" ELSE "once"
  /\ UNCHANGED <<text, note_titles, file_title, second, classified, sections,
                 idx, outs, complete_linked_text, nb_new_backlinks>>

\* linkify_text on the text the first call produced, same titles
SecondCall ==
  /\ pc = "once"
  /\ second' = linkify_text(first.text, note_titles, file_title)
  /\ pc' = "twice"
  /\ UNCHANGED <<text, note_titles, file_title, first, classified, sections,
                 idx, outs, complete_linked_text, nb_new_backlinks>>

NextLink == FirstCall \/ SecondCall

SpecLink == InitLink /\ [][NextLink]_vars

\* --------------------------- separate_acronyms_and_classic_titles directly

InitClassify ==
  /\ text = <<>>
  /\ note_titles \in SeqsUpTo(ClassifyTitles, MaxTitles)
  /\ file_title = None
  /\ pc = "classify"
  /\ Idle

Classify ==
  /\ pc = "classify"
  /\ classified' = separate_acronyms_and_classic_titles(note_titles)
  /\ pc' = IF classified'.raised THEN "raised" ELSE "classified"
  /\ UNCHANGED <<text, note_titles, file_title, first, second, sections,
                 idx, outs, complete_linked_text, nb_new_backlinks>>

NextClassify == Classify

SpecClassify == InitClassify /\ [][NextClassify]_vars

\* ------------------------------------------------ main, for one document

\* pieces of the documents main reads
DocPieces == {T_M_L, <<"\n">>, FENCE, <<"$">>, <<"|">>}
MaxDocPieces == 4
DocTexts == {Flatten(ps) : ps \in SeqsUpTo(DocPieces, MaxDocPieces)}

\* get_note_titles of the vault: not empty, or main returns before the loop
DocTitleLists == { <<T_L>>, <<T_L, T_M_L>>, <<T_M_L, T_L>> }

\* the document is a note of the vault: its stem is one of the titles
Init ==
  /\ text \in DocTexts
  /\ note_titles \in DocTitleLists
  /\ file_title \in ToSet(note_titles)
  /\ pc = "read"
  /\ Idle

\* text = file.read(); linkifiable_sections = split_text_for_linkification(text)
SplitDoc ==
  /\ pc = "read"
  /\ sections' = split_text_for_linkification(text)
  /\ idx' = 1
  /\ pc' = "loop"
  /\ UNCHANGED <<text, note_titles, file_title, first, second, classified,
                 outs, complete_linked_text, nb_new_backlinks>>

\* linked_text, nb_new_links = r unpacks the pair r;
\* complete_linked_text += linked_text; nb_new_backlinks += nb_new_links
Unpacked(r) ==
  /\ r.kind = "tuple"
  /\ complete_linked_text' = complete_linked_text \o r.text
  /\ nb_new_backlinks' = nb_new_backlinks + r.nb
  /\ outs' = Append(outs, r.text)

\* r is an exception, or a bare str: one of length 2 unpacks into its two
\* characters, the first is appended and adding the second to the count
\* raises TypeError; any other length raises ValueError
NotUnpacked(r) ==
  /\ r.kind \in {"raise", "str"}
  /\ complete_linked_text' =
       IF r.kind = "str" /\ Len(r.text) = 2
       THEN complete_linked_text \o <<r.text[1]>>
       ELSE complete_linked_text

\* a linkifiable section whose linkify_text result unpacks into two values
LinkSection ==
  /\ pc = "loop"
  /\ idx <= Len(sections)
  /\ sections[idx].linkifiable
  /\ Unpacked(linkify_text(sections[idx].text, note_titles, file_title))
  /\ idx' = idx + 1
  /\ UNCHANGED <<text, note_titles, file_title, pc, first, second, classified,
                 sections>>

\* a linkifiable section whose linkify_text call raises, or returns a bare str:
\* unpacking a str of length other than 2 raises ValueError; a str of length 2
\* unpacks into its two characters and nb_new_backlinks += nb_new_links raises
\* TypeError after the first character was appended.  The except clause of the
\* loop logs the error and the file is not written.
FailSection ==
  /\ pc = "loop"
  /\ idx <= Len(sections)
  /\ sections[idx].linkifiable
  /\ NotUnpacked(linkify_text(sections[idx].text, note_titles, file_title))
  /\ pc' = "error"
  /\ UNCHANGED <<text, note_titles, file_title, first, second, classified,
                 sections, idx, outs, nb_new_backlinks>>

\* complete_linked_text += section
CopySection ==
  /\ pc = "loop"
  /\ idx <= Len(sections)
  /\ ~sections[idx].linkifiable
  /\ complete_linked_text' = complete_linked_text \o sections[idx].text
  /\ outs' = Append(outs, sections[idx].text)
  /\ idx' = idx + 1
  /\ UNCHANGED <<text, note_titles, file_title, pc, first, second, classified,
                 sections, nb_new_backlinks>>

\* file.write(complete_linked_text)
WriteFile ==
  /\ pc = "loop"
  /\ idx > Len(sections)
  /\ pc' = "done"
  /\ UNCHANGED <<text, note_titles, file_title, first, second, classified,
                 sections, idx, outs, complete_linked_text, nb_new_backlinks>>

Next == SplitDoc \/ LinkSection \/ FailSection \/ CopySection \/ WriteFile

Spec == Init /\ [][Next]_vars

\* ================================================================== claims

OPEN == <<"[", "[">>
CLOSE == <<"]", "]">>

\* the titles linkify_text works with, and the acronyms it derives from them
KeptTitles == FilterFileTitle(note_titles, file_title)
KeptAcronyms == separate_acronyms_and_classic_titles(KeptTitles).acronyms

\* the number of places at which lit occurs in t
Occurrences(t, lit) == Cardinality({i \in 1..Len(t) : LitAt(t, i, lit, FALSE)})

\* t holds no marker
PlainText(t) == ~Contains(t, OPEN) /\ ~Contains(t, CLOSE)

\* lit occurs in t at i, in any letter case, delimited by non-word characters
DelimitedAt(t, i, lit) ==
  LitAt(t, i, lit, TRUE) /\ ~WordAt(t, i - 1) /\ ~WordAt(t, i + Len(lit))

\* a marker opens inside another marker of t
NestedMarker(t) ==
  \E i, j \in 1..Len(t) :
    /\ i < j
    /\ LitAt(t, i, OPEN, FALSE)
    /\ LitAt(t, j, OPEN, FALSE)
    /\ \A k \in i..j : ~LitAt(t, k, CLOSE, FALSE)

\* C1: applying linkify_text to the text a first application produced (same
\* titles, same current-file title) returns that same text and creates no
\* additional reference.
C1_Idempotent ==
  pc = "twice" => second.text = first.text /\ second.made = 0

\* C2: with titles "L" and "M L" (one a strict substring of the other) and a
\* marker-free text holding a delimited occurrence of "M L" in any letter case,
\* the output holds a reference to "M L" and no marker inside another marker.
C2_LongestMatch ==
  ( /\ pc = "once"
    /\ {T_L, T_M_L} \subseteq ToSet(KeptTitles)
    /\ PlainText(text)
    /\ \E i \in 1..Len(text) : DelimitedAt(text, i, T_M_L) )
  => /\ Contains(first.text, OPEN \o T_M_L)
     /\ ~NestedMarker(first.text)

\* C4: every marker [[M L|m l]] present in the input is present, unchanged, in
\* the output (linkify_text inserts no marker inside it): the output holds at
\* least as many of them as the input.
C4_ExistingPreserved ==
  pc = "once" => Occurrences(first.text, T_M_L_link) >= Occurrences(text, T_M_L_link)

\* C5 (as stated): with a current-file title, no reference targets it, and a
\* text that is exactly the current-file title is returned unwrapped.
C5_SelfExclusion ==
  (pc = "once" /\ file_title # None)
  => /\ file_title \notin first.targets
     /\ text = file_title => first.text = text

\* some other title (in any letter case) or a derived acronym occurs in t
OtherTitleOccurs(t) ==
  \/ \E k \in 1..Len(KeptTitles) : Contains(LowerStr(t), LowerStr(KeptTitles[k]))
  \/ \E k \in 1..Len(KeptAcronyms) : Contains(t, KeptAcronyms[k].acronym)

\* C5 (amended): with a current-file title, no reference targets it; and when
\* no other title (in any letter case) and no derived acronym occurs in the
\* text, the text, with every occurrence of the current-file title, is
\* returned unchanged.
C5_NoSelfTarget ==
  (pc = "once" /\ file_title # None)
  => /\ file_title \notin first.targets
     /\ ~OtherTitleOccurs(text) => (first.text = text /\ first.made = 0)

\* the current-file title "L" is a title of the list, the text starts with it
\* and goes on with another title that is linked: "L" stays unwrapped
C5_Witness ==
  /\ pc = "once"
  /\ file_title = T_L
  /\ T_L \in ToSet(note_titles)
  /\ text = T_L \o <<" ">> \o T_M_L
  /\ first.text = T_L \o <<" ">> \o OPEN \o T_M_L \o CLOSE
  /\ first.made = 1

\* C6: a text that is the title "M L" in any letter case followed by "s" is
\* rewritten to [[M L]]s.
C6_Plural ==
  ( /\ pc = "once"
    /\ T_M_L \in ToSet(KeptTitles)
    /\ Len(text) = Len(T_M_L) + 1
    /\ LitAt(text, 1, T_M_L, TRUE)
    /\ text[Len(text)] = "s" )
  => first.text = OPEN \o T_M_L \o CLOSE \o <<"s">>

\* t is one or more words, each the acronym acr in any letter case, with one
\* space between two words
AcronymWords(t, acr) ==
  /\ Len(t) % (Len(acr) + 1) = Len(acr)
  /\ \A i \in 1..Len(t) :
       IF i % (Len(acr) + 1) = 0 THEN t[i] = " "
       ELSE Lower(t[i]) = Lower(acr[i % (Len(acr) + 1)])

\* C7: with the one title "M L" (acronym "ML"), every occurrence of the acronym
\* in a text made of such occurrences, in any letter case, is replaced by a
\* reference to "M L" and counted.
C7_AcronymPass ==
  ( /\ pc = "once"
    /\ KeptTitles = <<T_M_L>>
    /\ AcronymWords(text, T_ML) )
  => /\ first.nb = (Len(text) + 1) \div (Len(T_ML) + 1)
     /\ Occurrences(first.text, OPEN \o T_M_L \o <<"|">>) = first.nb

\* C8: linkify_text returns a pair (text, count) for every input; with an
\* empty title list the text is unchanged and the count zero.
C8_ReturnsPair ==
  pc = "once"
  => /\ first.kind = "tuple"
     /\ note_titles = <<>> => (first.text = text /\ first.nb = 0)

\* C9: separate_acronyms_and_classic_titles never raises; every title is in
\* the classic list and every admitted acronym is longer than one character.
C9_ClassifierTotal ==
  /\ pc # "raised"
  /\ pc = "classified"
     => /\ classified.classic_titles = note_titles
        /\ \A k \in 1..Len(classified.acronyms) :
             Len(classified.acronyms[k].acronym) > 1

\* where section k starts in the text, and where its output starts in the
\* rewritten document
RECURSIVE TotalLen(_, _)
TotalLen(ss, k) == IF k = 0 THEN 0 ELSE Len(ss[k]) + TotalLen(ss, k - 1)
SectionStart(k) == 1 + TotalLen([m \in 1..Len(sections) |-> sections[m].text], k - 1)
OutStart(k) == 1 + TotalLen(outs, k - 1)

\* a code fence or a $ opens at i, no fence or $ comes before it, and no
\* closer comes after it
UnterminatedAt(t, i) ==
  /\ \A k \in 1..(i - 1) : t[k] \notin {BACKTICK, "$"}
  /\ \/ LitAt(t, i, FENCE, FALSE) /\ \A k \in (i + 3)..Len(t) : ~LitAt(t, k, FENCE, FALSE)
     \/ t[i] = "$" /\ \A k \in (i + 1)..Len(t) : t[k] # "$"

\* C10: everything from an opener with no closer to the end of the text is
\* tagged not linkable: no linkable span holds a character at or after the
\* opener.
C10_UnterminatedProtected ==
  pc = "loop"
  => \A i \in 1..Len(text) :
       UnterminatedAt(text, i)
       => \A k \in 1..Len(sections) :
            (sections[k].text # <<>> /\ SectionStart(k) + Len(sections[k].text) > i)
            => ~sections[k].linkifiable

\* ---- C3: the protected regions of a text, read off the text alone

EndsWith(s, lit) == LitAt(s, Len(s) - Len(lit) + 1, lit, FALSE)

\* ```...``` up to the first closing fence
IsCodeBlock(s) ==
  /\ Len(s) >= 6
  /\ StartsWith(s, FENCE)
  /\ EndsWith(s, FENCE)
  /\ \A k \in 4..(Len(s) - 3) : ~LitAt(s, k, FENCE, FALSE)

\* $$...$$ up to the first closing $$, or $...$ up to the first closing $
IsMath(s) ==
  \/ /\ Len(s) >= 4
     /\ StartsWith(s, <<"$", "$">>)
     /\ EndsWith(s, <<"$", "$">>)
     /\ \A k \in 3..(Len(s) - 2) : ~LitAt(s, k, <<"$", "$">>, FALSE)
  \/ /\ Len(s) >= 2
     /\ s[1] = "$"
     /\ s[Len(s)] = "$"
     /\ \A k \in 2..(Len(s) - 1) : s[k] # "$"

\* one line that starts and ends with |
IsRow(s) ==
  /\ Len(s) >= 2
  /\ s[1] = "|"
  /\ s[Len(s)] = "|"
  /\ \A k \in 1..Len(s) : s[k] # "\n"

\* t[i..j] is a terminated code block, a math region (not preceded by a
\* backtick) or a table row
IsRegion(t, i, j) ==
  \/ IsCodeBlock(SubSeq(t, i, j))
  \/ IsMath(SubSeq(t, i, j)) /\ NotAfterBacktick(t, i)
  \/ IsRow(SubSeq(t, i, j)) /\ LineStart(t, i) /\ LineEnd(t, j + 1)

Regions(t) == {r \in (1..Len(t)) \X (1..Len(t)) : r[1] < r[2] /\ IsRegion(t, r[1], r[2])}

\* the regions no region that starts earlier runs into
ClearRegions(t) ==
  {r \in Regions(t) : \A q \in Regions(t) : ~(q[1] < r[1] /\ q[2] >= r[1])}

\* region r lies in section k, and the rewritten document holds it, byte for
\* byte, at the place of section k's output that matches its place in k
PreservedIn(r, k) ==
  /\ SectionStart(k) <= r[1]
  /\ r[2] < SectionStart(k) + Len(sections[k].text)
  /\ SubSeq(complete_linked_text,
            OutStart(k) + (r[1] - SectionStart(k)),
            OutStart(k) + (r[2] - SectionStart(k))) = SubSeq(text, r[1], r[2])
  /\ Len(outs[k]) = Len(sections[k].text)

====
